---- MODULE Spec2Model ----
(***************************************************************************)
(* A model of UniversalDeepLearning: GraphBuilder (GraphBuilder.py),       *)
(* VariationalEncoder, VAE and UniversalGNN (models.py) and HyperParameter *)
(* (hyper.py).                                                             *)
(*                                                                         *)
(* Numbers are exact extended rationals <<n, d>> with d >= 0 in lowest     *)
(* terms: <<1, 0>> is +inf and <<0, 0>> is NaN, so that 0/0 and 1/inf are  *)
(* what IEEE arithmetic makes of them.                                     *)
(***************************************************************************)
EXTENDS Integers, Sequences, FiniteSets, TLC

VARIABLES
    gb,         \* the GraphBuilder's fields (GraphBuilder.__init__)
    gbPc,       \* position inside GraphBuilder.compute_graph
    gbBatch,    \* the batch compute_graph was called with
    gbAtCall,   \* the builder's fields when compute_graph was entered
    gbNodes,    \* nodes_matrix, once computed
    gbEdges,    \* edges_indeces, once computed
    gbWeights,  \* edges_weights, once computed
    gbExc,      \* the exception compute_graph raised, or "none"
    encCalls,   \* calls of self.encoder since compute_graph was entered
    enc,        \* the VAE's VariationalEncoder: its four Linear layers and kl
    rng,        \* state of the random generator self.N samples from
    vaeLast,    \* the last call on the VAE: its name, input and return value
    latentRets, \* per input: the values get_latent has returned so far
    latentPhase,\* the input of the latest get_latent, and what followed it
    ugnn,       \* the UniversalGNN's dictionaries and default dataset name
    ugCall,     \* the call in progress on the UniversalGNN, or NoUGCall
    ugTrace,    \* the sub-modules the call invoked, in order
    ugLogs,     \* what the call gave to self.log, in order
    ugExc,      \* the exception the call raised, or "none"
    ugOut,      \* the value the call returned
    fs,         \* what PATH_TO_RESULTS is on disk: "absent" or "dir"
    hp          \* per process: where it is in HyperParameter()

gbVars == <<gb, gbPc, gbBatch, gbAtCall, gbNodes, gbEdges, gbWeights, gbExc, encCalls>>

vaeVars == <<enc, rng, vaeLast, latentRets, latentPhase>>

ugVars == <<ugnn, ugCall, ugTrace, ugLogs, ugExc, ugOut>>

hpVars == <<fs, hp>>

vars == <<gbVars, vaeVars, ugVars, hpVars>>

(***************************************************************************)
(* Bounds                                                                  *)
(***************************************************************************)
MaxN == 2       \* rows of a batch: 1..MaxN
MaxVal == 2     \* feature values are k/2 for k in 0..MaxVal
MaxX == 1       \* inputs of the VAE: -MaxX..MaxX
RngStates == 3  \* states of the random generator: 0..RngStates-1
MaxBatchLen == 4        \* a batch given to common_step has 0..MaxBatchLen elements
NProcs == 2             \* processes constructing HyperParameter
MaxConstructions == 2   \* constructions per process

(***************************************************************************)
(* Extended rationals                                                      *)
(***************************************************************************)
RECURSIVE GCD(_, _)
GCD(a, b) == IF b = 0 THEN a ELSE GCD(b, a % b)

Abs(n) == IF n < 0 THEN -n ELSE n

NaN == <<0, 0>>
Inf == <<1, 0>>
Zero == <<0, 1>>
One == <<1, 1>>

Norm(n, d) ==
    IF d = 0 THEN (IF n = 0 THEN NaN ELSE IF n > 0 THEN Inf ELSE <<-1, 0>>)
    ELSE LET g == GCD(Abs(n), Abs(d))
             s == IF d < 0 THEN -1 ELSE 1
         IN  <<(s * n) \div g, (s * d) \div g>>

IsNaN(a) == a = NaN
IsFinite(a) == a[2] # 0

RAdd(a, b) ==
    IF IsNaN(a) \/ IsNaN(b) THEN NaN
    ELSE IF ~IsFinite(a) /\ ~IsFinite(b) THEN (IF a = b THEN a ELSE NaN)
    ELSE IF ~IsFinite(a) THEN a
    ELSE IF ~IsFinite(b) THEN b
    ELSE Norm(a[1] * b[2] + b[1] * a[2], a[2] * b[2])

RNeg(a) == <<-a[1], a[2]>>
RSub(a, b) == RAdd(a, RNeg(b))
RAbs(a) == <<Abs(a[1]), a[2]>>

RMul(a, b) ==
    IF IsNaN(a) \/ IsNaN(b) THEN NaN
    ELSE Norm(a[1] * b[1], a[2] * b[2])

\* IEEE division: x/0 is inf for x # 0 and NaN for x = 0; x/inf is 0.
RDiv(a, b) ==
    IF IsNaN(a) \/ IsNaN(b) THEN NaN
    ELSE IF ~IsFinite(a) /\ ~IsFinite(b) THEN NaN
    ELSE IF ~IsFinite(b) THEN Zero
    ELSE Norm(a[1] * b[2], a[2] * b[1])

\* IEEE comparison: every comparison with NaN is false.
RLess(a, b) ==
    /\ ~IsNaN(a) /\ ~IsNaN(b)
    /\ a # b
    /\ IF ~IsFinite(a) THEN a[1] < 0
       ELSE IF ~IsFinite(b) THEN b[1] > 0
       ELSE a[1] * b[2] < b[1] * a[2]

RGreater(a, b) == RLess(b, a)
RLeq(a, b) == ~IsNaN(a) /\ ~IsNaN(b) /\ ~RLess(b, a)

\* int(x) of a finite number: truncation toward zero.
Trunc(a) ==
    IF a[1] >= 0 THEN <<a[1] \div a[2], 1>> ELSE <<-((-a[1]) \div a[2]), 1>>

(***************************************************************************)
(* GraphBuilder (src/src/GraphBuilder.py)                                  *)
(***************************************************************************)
Range(f) == {f[i] : i \in DOMAIN f}

\* Feature values of a batch: the finite numbers k/2.
FeatureValues == {Norm(k, 2) : k \in 0..MaxVal}

\* A row has two feature columns (indices 0 and 1).
Rows == {<<a, b>> : a \in FeatureValues, b \in FeatureValues}

\* A batch: 1..MaxN rows.
Batches == UNION {[1..n -> Rows] : n \in 1..MaxN}

ParamsIndecesChoices == {<<0>>, <<1>>, <<0, 1>>}
SparsityChoices == {Norm(0, 1), Norm(1, 4), Norm(1, 2), Norm(3, 4), Norm(1, 1)}
DistanceFunctions == {"cityblock"}

\* The fields GraphBuilder.__init__ stores (encoder and device are opaque).
GraphBuilderInit(distance_function, params_indeces, sparsity, edge_level_batch) ==
    [distance_function |-> distance_function,
     params_indeces    |-> params_indeces,
     sparsity          |-> sparsity,
     edge_level_batch  |-> edge_level_batch]

\* torch.index_select(batch, dim=1, index): the listed columns, in order.
index_select(batch, index) ==
    [r \in 1..Len(batch) |-> [k \in 1..Len(index) |-> batch[r][index[k] + 1]]]

RECURSIVE SumSeq(_)
SumSeq(s) == IF s = <<>> THEN Zero ELSE RAdd(s[1], SumSeq(Tail(s)))

\* scipy.spatial.distance metric "cityblock" of two rows: sum of |u_k - v_k|.
metric(u, v, distance_function) ==
    SumSeq([k \in 1..Len(u) |-> RAbs(RSub(u[k], v[k]))])

\* scipy.spatial.distance.cdist(XA, XB, metric): all pairwise distances.
cdist(XA, XB, distance_function) ==
    [i \in 1..Len(XA) |-> [j \in 1..Len(XB) |-> metric(XA[i], XB[j], distance_function)]]

\* GraphBuilder.score_function: the value and its Python type (result = 0 is
\* an int, 1/x is a float).
score_function(x) ==
    IF x = Zero \/ x = Inf
    THEN [ty |-> "int", v |-> Zero]
    ELSE [ty |-> "float", v |-> RDiv(One, x)]

\* np.vectorize(score_function)(m) without otypes: the output dtype is the
\* type of score_function applied to the first element, m.flat[0], and every
\* output is cast to it (int(...) of a float truncates).
vectorize_score_function(m) ==
    LET otype == score_function(m[1][1]).ty
        cast(y) == IF otype = "int" THEN Trunc(y.v) ELSE y.v
    IN  [i \in 1..Len(m) |-> [j \in 1..Len(m[i]) |-> cast(score_function(m[i][j]))]]

\* The matrix flattened in row-major order.
RECURSIVE Flatten(_)
Flatten(m) == IF m = <<>> THEN <<>> ELSE m[1] \o Flatten(Tail(m))

RECURSIVE Insert(_, _)
Insert(s, e) ==
    IF s = <<>> THEN <<e>>
    ELSE IF RLeq(e, s[1]) THEN <<e>> \o s
    ELSE <<s[1]>> \o Insert(Tail(s), e)

\* np.sort of a flat array (ascending).
RECURSIVE np_sort(_)
np_sort(s) == IF s = <<>> THEN <<>> ELSE Insert(np_sort(Tail(s)), s[1])

\* np.quantile(a, q) of the flattened array, default method "linear":
\* virtual index (N - 1) * q, interpolated between its two neighbours.
quantile(m, q) ==
    LET a == Flatten(m)
        N == Len(a)
        sorted == np_sort(a)
        h == RMul(<<N - 1, 1>>, q)
        previous == h[1] \div h[2]
        next == IF previous + 1 > N - 1 THEN N - 1 ELSE previous + 1
        gamma == RSub(h, <<previous, 1>>)
        lo == sorted[previous + 1]
        hi == sorted[next + 1]
    IN  IF \E k \in 1..N : IsNaN(a[k]) THEN NaN
        ELSE RAdd(lo, RMul(RSub(hi, lo), gamma))

\* np.where(scores_matrix > quantile, scores_matrix, 0)
where_greater(m, q) ==
    [i \in 1..Len(m) |-> [j \in 1..Len(m[i]) |->
        IF RGreater(m[i][j], q) THEN m[i][j] ELSE Zero]]

\* scores_matrix.max() of a matrix without NaN.
matrix_max(m) ==
    LET a == Flatten(m)
    IN  CHOOSE x \in Range(a) : \A y \in Range(a) : RLeq(y, x)

\* scores_matrix / scores_matrix.max()
matrix_divide(m, x) ==
    [i \in 1..Len(m) |-> [j \in 1..Len(m[i]) |-> RDiv(m[i][j], x)]]

\* torch_geometric.utils.dense_to_sparse: the positions adj.nonzero() lists,
\* in row-major order, 0-based, with their values; NaN is nonzero.
RECURSIVE NonzeroFrom(_, _)
NonzeroFrom(m, k) ==
    LET n == Len(m)
        i == (k \div n) + 1
        j == (k % n) + 1
    IN  IF k >= n * n THEN <<>>
        ELSE (IF m[i][j] # Zero THEN <<<<i - 1, j - 1>>>> ELSE <<>>)
             \o NonzeroFrom(m, k + 1)

dense_to_sparse(m) ==
    LET index == NonzeroFrom(m, 0)
    IN  [edges_indeces |-> index,
         edges_weights |-> [k \in 1..Len(index) |-> m[index[k][1] + 1][index[k][2] + 1]]]

\* GraphBuilder.compute_edges_matrices
compute_edges_matrices(self, batch) ==
    LET distance_features == index_select(batch, self.params_indeces)
        distances_matrix == cdist(distance_features, distance_features,
                                  self.distance_function)
        scores_matrix == vectorize_score_function(distances_matrix)
        sparsity_quantile == RSub(One, self.sparsity)
        q == quantile(scores_matrix, sparsity_quantile)
        kept == where_greater(scores_matrix, q)
        normalized == matrix_divide(kept, matrix_max(kept))
    IN  dense_to_sparse(normalized)

\* GraphBuilder.compute_nodes_matrix: the opaque encoder applied to the batch.
compute_nodes_matrix(self, batch) == <<"encoder", batch>>

\* compute_graph's state between calls.
GBIdle ==
    /\ gbPc = "idle"
    /\ gbBatch = <<>>
    /\ gbAtCall = gb
    /\ gbNodes = <<>>
    /\ gbEdges = <<>>
    /\ gbWeights = <<>>
    /\ gbExc = "none"
    /\ encCalls = 0

GBInit ==
    /\ \E df \in DistanceFunctions, pi \in ParamsIndecesChoices,
          sp \in SparsityChoices, el \in BOOLEAN :
          gb = GraphBuilderInit(df, pi, sp, el)
    /\ GBIdle

\* A caller enters compute_graph(batch).
compute_graph_call ==
    /\ gbPc = "idle"
    /\ \E batch \in Batches : gbBatch' = batch
    /\ gbPc' = "entered"
    /\ gbAtCall' = gb
    /\ UNCHANGED <<gb, gbNodes, gbEdges, gbWeights, gbExc, encCalls>>
    /\ UNCHANGED <<vaeVars, ugVars, hpVars>>

\* Lines 47-48: an edge-level builder calls compute_row_level_batch, which
\* raises NotImplementedError.
compute_row_level_batch ==
    /\ gbPc = "entered"
    /\ gb.edge_level_batch
    /\ gbPc' = "raised"
    /\ gbExc' = "NotImplementedError"
    /\ UNCHANGED <<gb, gbBatch, gbAtCall, gbNodes, gbEdges, gbWeights, encCalls>>
    /\ UNCHANGED <<vaeVars, ugVars, hpVars>>

\* compute_graph with the edge_level_batch test forgotten before the encoder
\* is called.
compute_graph_nodes_unguarded ==
    /\ gbPc = "entered"
    /\ gbNodes' = compute_nodes_matrix(gb, gbBatch)
    /\ encCalls' = encCalls + 1
    /\ gbPc' = "nodes"
    /\ UNCHANGED <<gb, gbBatch, gbAtCall, gbEdges, gbWeights, gbExc>>
    /\ UNCHANGED <<vaeVars, ugVars, hpVars>>

\* Line 49: nodes_matrix = self.compute_nodes_matrix(batch)
compute_graph_nodes ==
    /\ gbPc = "entered"
    /\ ~gb.edge_level_batch
    /\ gbNodes' = compute_nodes_matrix(gb, gbBatch)
    /\ encCalls' = encCalls + 1
    /\ gbPc' = "nodes"
    /\ UNCHANGED <<gb, gbBatch, gbAtCall, gbEdges, gbWeights, gbExc>>
    /\ UNCHANGED <<vaeVars, ugVars, hpVars>>

\* Lines 50-51: the edges are computed and the triple is returned.
compute_graph_edges ==
    /\ gbPc = "nodes"
    /\ LET r == compute_edges_matrices(gb, gbBatch)
       IN  /\ gbEdges' = r.edges_indeces
           /\ gbWeights' = r.edges_weights
    /\ gbPc' = "returned"
    /\ UNCHANGED <<gb, gbBatch, gbAtCall, gbNodes, gbExc, encCalls>>
    /\ UNCHANGED <<vaeVars, ugVars, hpVars>>

\* The caller takes the result (or the exception); the builder is called
\* again at the next forward pass.
compute_graph_done ==
    /\ gbPc \in {"returned", "raised"}
    /\ gbPc' = "idle"
    /\ gbBatch' = <<>>
    /\ gbAtCall' = gb
    /\ gbNodes' = <<>>
    /\ gbEdges' = <<>>
    /\ gbWeights' = <<>>
    /\ gbExc' = "none"
    /\ encCalls' = 0
    /\ UNCHANGED gb
    /\ UNCHANGED <<vaeVars, ugVars, hpVars>>

GBNext ==
    \/ compute_graph_call
    \/ compute_row_level_batch
    \/ compute_graph_nodes
    \/ compute_graph_edges
    \/ compute_graph_done

(***************************************************************************)
(* VariationalEncoder and VAE (src/src/models.py), with input_dim =        *)
(* hidden_dim = latent_dim = 1 and a batch of one row.  sigma is exp(s)    *)
(* for an integer s, so values are kept symbolically: [c, k, e] stands for *)
(* c + k * exp(e), with e = 0 whenever k = 0.                              *)
(***************************************************************************)
Sym(c, k, e) == [c |-> c, k |-> k, e |-> IF k = 0 THEN 0 ELSE e]

VAEInputs == (-MaxX)..MaxX

\* nn.Linear(1, 1) after its random initialisation: a weight and a bias.
LinearInits == {[w |-> 1, b |-> 0], [w |-> -1, b |-> 1]}

Linear(layer, x) == layer.w * x + layer.b

relu(x) == IF x > 0 THEN x ELSE 0

\* self.kl = 0 of VariationalEncoder.__init__
KLInit == Sym(Zero, 0, 0)

\* VariationalEncoder.__init__
VariationalEncoderInit(l1, l2, lmu, lsigma) ==
    [linear1 |-> l1, linear2 |-> l2, linear_mu |-> lmu, linear_sigma |-> lsigma,
     kl |-> KLInit]

\* self.N.sample(mu.shape): the draw is a function of the generator's state,
\* which the draw advances.
N_sample(g) == [eps |-> g - 1, rng |-> (g + 1) % RngStates]

\* The two hidden layers both forward and forward_det start with.
encoder_hidden(self, x) == relu(Linear(self.linear2, relu(Linear(self.linear1, x))))

\* VariationalEncoder.forward: the value returned, the encoder and the
\* generator after the call.
VariationalEncoder_forward(self, g, x) ==
    LET h == encoder_hidden(self, x)
        mu == Linear(self.linear_mu, h)
        log_sigma == Linear(self.linear_sigma, h)
        draw == N_sample(g)
        z == Sym(<<mu, 1>>, draw.eps, log_sigma)
        \* (sigma**2 + mu**2 - log(sigma) - 1/2).mean()
        kl == Sym(RSub(<<mu * mu - log_sigma, 1>>, Norm(1, 2)), 1, 2 * log_sigma)
    IN  [ret |-> z, enc |-> [self EXCEPT !.kl = kl], rng |-> draw.rng]

\* forward_det written as forward is: it samples around the mean and stores kl.
forward_det_sampling(self, g, x) == VariationalEncoder_forward(self, g, x)

\* VariationalEncoder.forward_det: the mean only; nothing is sampled or stored.
forward_det(self, g, x) ==
    LET h == encoder_hidden(self, x)
        mu == Linear(self.linear_mu, h)
    IN  [ret |-> Sym(<<mu, 1>>, 0, 0), enc |-> self, rng |-> g]

\* VAE.get_latent
get_latent(self, g, x) == forward_det(self, g, x)

\* VAE.forward: the opaque decoder applied to the sampled z.
VAE_forward(self, g, x) ==
    LET r == VariationalEncoder_forward(self, g, x)
    IN  [ret |-> <<"decoder", r.ret>>, enc |-> r.enc, rng |-> r.rng]

NoCall == [op |-> "none", x |-> 0, ret |-> <<>>]

NoPhase == [x |-> 0, phase |-> "never"]

VAEInit ==
    /\ \E l1 \in LinearInits, l2 \in LinearInits, lmu \in LinearInits,
          lsigma \in LinearInits : enc = VariationalEncoderInit(l1, l2, lmu, lsigma)
    /\ rng \in 0..(RngStates - 1)
    /\ vaeLast = NoCall
    /\ latentRets = [x \in VAEInputs |-> {}]
    /\ latentPhase = NoPhase

\* A call of VAE.forward(x), as in VAE.common_step.
VAEForward ==
    /\ \E x \in VAEInputs :
            LET r == VAE_forward(enc, rng, x)
            IN  /\ enc' = r.enc
                /\ rng' = r.rng
                /\ vaeLast' = [op |-> "forward", x |-> x, ret |-> r.ret]
                /\ latentPhase' = IF latentPhase.phase = "never" THEN latentPhase
                                   ELSE [latentPhase EXCEPT !.phase = "forward_after"]
                /\ UNCHANGED latentRets
    /\ UNCHANGED <<gbVars, ugVars, hpVars>>

\* A call of VAE.get_latent(x).
VAEGetLatent ==
    /\ \E x \in VAEInputs :
            LET r == get_latent(enc, rng, x)
            IN  /\ enc' = r.enc
                /\ rng' = r.rng
                /\ vaeLast' = [op |-> "get_latent", x |-> x, ret |-> r.ret]
                /\ latentRets' = [latentRets EXCEPT ![x] = @ \cup {r.ret}]
                /\ latentPhase' =
                       IF latentPhase.x = x /\ latentPhase.phase \in {"forward_after", "again"}
                       THEN [x |-> x, phase |-> "again"]
                       ELSE [x |-> x, phase |-> "once"]
    /\ UNCHANGED <<gbVars, ugVars, hpVars>>

VAENext == VAEForward \/ VAEGetLatent

(***************************************************************************)
(* UniversalGNN (src/src/models.py)                                        *)
(***************************************************************************)
\* The dataset classes (hyper.py, lines 48-53): the keys the three
\* dictionaries may hold, and the classes a batch's third element may have.
DatasetClasses == {"UberMovementDataset", "ClimARTDataset", "BuildingElectricityDataset"}
Splits == {"training", "validation", "test"}

\* Positional arguments GraphBuilder.compute_graph accepts besides self
\* (def compute_graph(self, batch)), and the number UniversalGNN.forward
\* passes (compute_graph(x, self.device)).
compute_graph_positional == 1
forward_call_positional == 2

\* UniversalGNN.__init__: default_dataset_name is assigned only when there
\* is exactly one autoencoder, and is then its key.
UniversalGNNInit(autoencoders, graphbuilders, regressors) ==
    [autoencoders |-> autoencoders,
     graphbuilders |-> graphbuilders,
     regressors |-> regressors,
     has_default |-> Cardinality(autoencoders) = 1,
     default_dataset_name |->
         IF Cardinality(autoencoders) = 1
         THEN CHOOSE k \in autoencoders : TRUE
         ELSE "unset"]

\* GraphBuilder.compute_graph as UniversalGNN.forward sees it: the exception
\* it raises, or the graph.
compute_graph(builder, dataset_name, x) ==
    IF builder.edge_level_batch
    THEN [exc |-> "NotImplementedError", graph |-> <<>>]
    ELSE [exc |-> "none", graph |-> <<"graph", dataset_name, x>>]

\* UniversalGNN.forward: the exception or the value returned, and the
\* sub-modules whose code ran, in order.  Lines 285-290 (the hstack of an
\* edge-level batch) run only after an edge-level builder's compute_graph
\* has returned, which it never does.
UniversalGNN_forward(self, x, dataset_name) ==
    IF dataset_name \notin DOMAIN self.graphbuilders
    THEN [exc |-> "KeyError", out |-> <<>>, trace |-> <<>>]
    ELSE IF forward_call_positional # compute_graph_positional
    THEN [exc |-> "TypeError", out |-> <<>>, trace |-> <<>>]
    ELSE LET g == compute_graph(self.graphbuilders[dataset_name], dataset_name, x)
             out == <<"gnn", g.graph>>
         IN  IF g.exc # "none"
             THEN [exc |-> g.exc, out |-> <<>>,
                   trace |-> <<<<"graphbuilder", dataset_name>>>>]
             ELSE IF dataset_name \notin self.regressors
             THEN [exc |-> "KeyError", out |-> <<>>,
                   trace |-> <<<<"graphbuilder", dataset_name>>, <<"gnn">>>>]
             ELSE [exc |-> "none", out |-> <<"regressor", dataset_name, out>>,
                   trace |-> <<<<"graphbuilder", dataset_name>>, <<"gnn">>,
                               <<"regressor", dataset_name>>>>]

\* Batches common_step may be given: tuples (x, y, dataset, ...) of 0 to
\* MaxBatchLen elements; the third element is a dataset object, named here by
\* its class.
UGBatches ==
    UNION {{[i \in 1..n |-> IF i = 1 THEN "x" ELSE IF i = 2 THEN "y"
                            ELSE IF i = 3 THEN c ELSE "extra"] :
                c \in DatasetClasses} : n \in 0..MaxBatchLen}

\* UniversalGNN.common_step, lines 294-301: the dataset name the batch is
\* routed to, or the exception.
common_step_route(self, batch) ==
    IF Len(batch) = 3 THEN [exc |-> "none", dataset_name |-> batch[3]]
    ELSE IF Len(batch) = 2
    THEN (IF self.has_default
          THEN [exc |-> "none", dataset_name |-> self.default_dataset_name]
          ELSE [exc |-> "AttributeError", dataset_name |-> "unset"])
    ELSE [exc |-> "RuntimeError", dataset_name |-> "unset"]

\* UniversalGNN.common_step: exception, returned loss, sub-modules run and
\* values logged.
common_step(self, batch, split) ==
    LET route == common_step_route(self, batch)
        r == UniversalGNN_forward(self, batch[1], route.dataset_name)
    IN  IF route.exc # "none"
        THEN [exc |-> route.exc, out |-> <<>>, trace |-> <<>>, logs |-> <<>>]
        ELSE IF r.exc # "none"
        THEN [exc |-> r.exc, out |-> <<>>, logs |-> <<>>,
              trace |-> <<<<"forward", route.dataset_name>>>> \o r.trace]
        ELSE [exc |-> "none", out |-> <<"mse_loss", r.out, batch[2]>>,
              trace |-> <<<<"forward", route.dataset_name>>>> \o r.trace,
              logs |-> <<<<route.dataset_name, split, "loss">>,
                         <<route.dataset_name, split, "R2">>>>]

NoUGCall == [op |-> "none"]

UGIdle ==
    /\ ugCall = NoUGCall
    /\ ugTrace = <<>>
    /\ ugLogs = <<>>
    /\ ugExc = "none"
    /\ ugOut = <<>>

\* A model is built for one or more datasets, each with its autoencoder,
\* graph builder and regressor under the dataset's class name.
UGInit ==
    /\ \E keys \in (SUBSET DatasetClasses) \ {{}} :
           \E g \in [keys -> [edge_level_batch : BOOLEAN]] :
               ugnn = UniversalGNNInit(keys, g, keys)
    /\ UGIdle

\* training_step, validation_step or test_step: common_step(batch, split).
UGCommonStep ==
    /\ ugCall = NoUGCall
    /\ \E batch \in UGBatches, split \in Splits :
           LET r == common_step(ugnn, batch, split)
           IN  /\ ugCall' = [op |-> "common_step", batch |-> batch, split |-> split]
               /\ ugTrace' = r.trace
               /\ ugLogs' = r.logs
               /\ ugExc' = r.exc
               /\ ugOut' = r.out
    /\ UNCHANGED ugnn
    /\ UNCHANGED <<gbVars, vaeVars, hpVars>>

\* A direct call self(x, dataset_name).
UGForward ==
    /\ ugCall = NoUGCall
    /\ \E dataset_name \in DatasetClasses :
           LET r == UniversalGNN_forward(ugnn, "x", dataset_name)
           IN  /\ ugCall' = [op |-> "forward", x |-> "x", dataset_name |-> dataset_name]
               /\ ugTrace' = r.trace
               /\ ugExc' = r.exc
               /\ ugOut' = r.out
    /\ UNCHANGED <<ugnn, ugLogs>>
    /\ UNCHANGED <<gbVars, vaeVars, hpVars>>

\* The caller takes the result or the exception.
UGReturn ==
    /\ ugCall # NoUGCall
    /\ ugCall' = NoUGCall
    /\ ugTrace' = <<>>
    /\ ugLogs' = <<>>
    /\ ugExc' = "none"
    /\ ugOut' = <<>>
    /\ UNCHANGED ugnn
    /\ UNCHANGED <<gbVars, vaeVars, hpVars>>

UGNext == UGCommonStep \/ UGForward \/ UGReturn

(***************************************************************************)
(* HyperParameter (src/src/hyper.py)                                       *)
(***************************************************************************)
Procs == 1..NProcs

\* The class attributes that choose the datasets.
UBERMOVEMENT == TRUE
CLIMART == TRUE
BUILDINGELECTRICITY == TRUE

\* Lines 47-53: DATASET_CLASS_LIST as __init__ builds it.
DATASET_CLASS_LIST ==
    (IF UBERMOVEMENT THEN <<"UberMovementDataset">> ELSE <<>>)
    \o (IF CLIMART THEN <<"ClimARTDataset">> ELSE <<>>)
    \o (IF BUILDINGELECTRICITY THEN <<"BuildingElectricityDataset">> ELSE <<>>)

HPInit ==
    /\ fs \in {"absent", "dir"}
    /\ hp = [p \in Procs |-> [pc |-> "idle", list |-> <<>>, exc |-> "none",
                              built |-> 0, made |-> 0]]

\* A process calls HyperParameter(): line 47.
HPConstruct(p) ==
    /\ hp[p].pc = "idle"
    /\ hp[p].built < MaxConstructions
    /\ hp' = [hp EXCEPT ![p].pc = "datasets", ![p].list = <<>>]
    /\ UNCHANGED fs
    /\ UNCHANGED <<gbVars, vaeVars, ugVars>>

\* __init__, lines 48-56: the list is filled and check_create_dir entered.
HPDatasets(p) ==
    /\ hp[p].pc = "datasets"
    /\ hp' = [hp EXCEPT ![p].pc = "isdir", ![p].list = DATASET_CLASS_LIST]
    /\ UNCHANGED fs
    /\ UNCHANGED <<gbVars, vaeVars, ugVars>>

\* check_create_dir, line 63: os.path.isdir(path); __init__ returns when the
\* directory is there.
HPIsdir(p) ==
    /\ hp[p].pc = "isdir"
    /\ hp' = IF fs = "dir"
             THEN [hp EXCEPT ![p].pc = "idle", ![p].built = @ + 1]
             ELSE [hp EXCEPT ![p].pc = "mkdir"]
    /\ UNCHANGED fs
    /\ UNCHANGED <<gbVars, vaeVars, ugVars>>

\* check_create_dir, line 64: os.mkdir(path) creates the directory, or raises
\* FileExistsError when the path exists.
HPMkdir(p) ==
    /\ hp[p].pc = "mkdir"
    /\ IF fs = "absent"
       THEN /\ fs' = "dir"
            /\ hp' = [hp EXCEPT ![p].pc = "idle", ![p].built = @ + 1,
                                ![p].made = @ + 1]
       ELSE /\ hp' = [hp EXCEPT ![p].pc = "failed", ![p].exc = "FileExistsError"]
            /\ UNCHANGED fs
    /\ UNCHANGED <<gbVars, vaeVars, ugVars>>

HPNext == \E p \in Procs : HPConstruct(p) \/ HPDatasets(p) \/ HPIsdir(p) \/ HPMkdir(p)

(***************************************************************************)
(* Specifications: one per component; the other components stay as         *)
(* constructed.                                                            *)
(***************************************************************************)
GBOff ==
    /\ gb = GraphBuilderInit("cityblock", <<0>>, Zero, FALSE)
    /\ GBIdle

VAEOff ==
    /\ enc = VariationalEncoderInit([w |-> 1, b |-> 0], [w |-> 1, b |-> 0],
                                    [w |-> 1, b |-> 0], [w |-> 1, b |-> 0])
    /\ rng = 0
    /\ vaeLast = NoCall
    /\ latentRets = [x \in VAEInputs |-> {}]
    /\ latentPhase = NoPhase

UGOff ==
    /\ ugnn = UniversalGNNInit({}, <<>>, {})
    /\ UGIdle

HPOff ==
    /\ fs = "absent"
    /\ hp = [p \in Procs |-> [pc |-> "idle", list |-> <<>>, exc |-> "none",
                              built |-> 0, made |-> 0]]

InitGB == GBInit /\ VAEOff /\ UGOff /\ HPOff

SpecGB == InitGB /\ [][GBNext]_vars

InitVAE == VAEInit /\ GBOff /\ UGOff /\ HPOff

SpecVAE == InitVAE /\ [][VAENext]_vars

InitUGNN == UGInit /\ GBOff /\ VAEOff /\ HPOff

SpecUGNN == InitUGNN /\ [][UGNext]_vars

InitHyper == HPInit /\ GBOff /\ VAEOff /\ UGOff

SpecHyper == InitHyper /\ [][HPNext]_vars

(***************************************************************************)
(* Claims about GraphBuilder.compute_edges_matrices                        *)
(***************************************************************************)
\* The scores the claims speak of: the distance on the params_indeces
\* columns, scored 0 when it is 0 or inf and 1/d otherwise.
ClaimedScores(self, batch) ==
    LET f == index_select(batch, self.params_indeces)
        d == cdist(f, f, self.distance_function)
    IN  [i \in 1..Len(d) |-> [j \in 1..Len(d) |->
            IF d[i][j] = Zero \/ d[i][j] = Inf THEN Zero ELSE RDiv(One, d[i][j])]]

\* The pairs (i, j), 0-based, whose claimed score is strictly above the
\* global (1 - sparsity)-quantile of all claimed scores.
ClaimedSurvivors(self, batch) ==
    LET s == ClaimedScores(self, batch)
        q == quantile(s, RSub(One, self.sparsity))
        n == Len(s)
    IN  {p \in (0..(n - 1)) \X (0..(n - 1)) : RGreater(s[p[1] + 1][p[2] + 1], q)}

\* C1: a returned edge list holds exactly the pairs (i, j) with s(i, j) > q,
\* each once, and the weight of (i, j) is s(i, j) over the largest surviving
\* score.
C1_EdgesAreSurvivors ==
    gbPc = "returned" =>
        LET s == ClaimedScores(gb, gbBatch)
            surv == ClaimedSurvivors(gb, gbBatch)
            best == CHOOSE x \in {s[p[1] + 1][p[2] + 1] : p \in surv} :
                        \A p \in surv : RLeq(s[p[1] + 1][p[2] + 1], x)
        IN  /\ Range(gbEdges) = surv
            /\ Len(gbEdges) = Cardinality(surv)
            /\ Len(gbWeights) = Len(gbEdges)
            /\ \A k \in 1..Len(gbEdges) :
                   gbWeights[k] = RDiv(s[gbEdges[k][1] + 1][gbEdges[k][2] + 1], best)

\* C2: every returned edge weight is a finite number in (0, 1], and when at
\* least one edge is returned the largest weight is exactly 1.
C2_WeightsNormalized ==
    gbPc = "returned" =>
        /\ \A k \in 1..Len(gbWeights) :
               /\ IsFinite(gbWeights[k])
               /\ RGreater(gbWeights[k], Zero)
               /\ RLeq(gbWeights[k], One)
        /\ (Len(gbWeights) > 0 => \E k \in 1..Len(gbWeights) : gbWeights[k] = One)

\* ceil(a) of a finite non-negative rational.
Ceil(a) == (a[1] + a[2] - 1) \div a[2]

\* C3: the number of returned edges is at most ceil(sparsity * n * n); with
\* sparsity 0 no edge is returned.
C3_EdgeCountBounded ==
    gbPc = "returned" =>
        LET n == Len(gbBatch)
        IN  Len(gbEdges) <= Ceil(RMul(gb.sparsity, <<n * n, 1>>))

(***************************************************************************)
(* Claims about GraphBuilder.compute_graph                                 *)
(***************************************************************************)
\* C7: an edge-level builder's compute_graph ends only by raising
\* NotImplementedError, with the encoder never invoked, nothing computed and
\* the builder's fields as they were; a row-level builder's compute_graph
\* never raises, invokes the encoder exactly once on the whole batch and
\* returns (nodes_matrix, edges_indeces, edges_weights).
C7_ComputeGraph ==
    /\ (gb.edge_level_batch /\ gbPc # "idle") =>
           /\ gbPc \in {"entered", "raised"}
           /\ encCalls = 0
           /\ gbNodes = <<>> /\ gbEdges = <<>> /\ gbWeights = <<>>
           /\ gb = gbAtCall
           /\ (gbPc = "raised" => gbExc = "NotImplementedError")
    /\ ~gb.edge_level_batch =>
           /\ gbPc # "raised" /\ gbExc = "none"
           /\ (gbPc = "nodes" => encCalls = 1)
           /\ (gbPc = "returned" =>
                  /\ encCalls = 1
                  /\ gbNodes = <<"encoder", gbBatch>>
                  /\ Len(gbEdges) = Len(gbWeights)
                  /\ \A k \in 1..Len(gbEdges) :
                         /\ gbEdges[k][1] \in 0..(Len(gbBatch) - 1)
                         /\ gbEdges[k][2] \in 0..(Len(gbBatch) - 1))

C7_Witness ==
    /\ gbPc = "raised"
    /\ gb.edge_level_batch
    /\ gbExc = "NotImplementedError"
    /\ Len(gbBatch) > 1

(***************************************************************************)
(* Claims about VAE.get_latent                                             *)
(***************************************************************************)
\* C4: get_latent returns one value per input, whatever the generator's
\* state and whatever calls of forward came in between, and leaves self.kl
\* as it was; every call of forward draws a sample and overwrites self.kl.
C4_GetLatentDeterministic ==
    /\ [](\A x \in VAEInputs : Cardinality(latentRets[x]) <= 1)
    /\ [][vaeLast'.op = "get_latent" => (enc'.kl = enc.kl /\ rng' = rng)]_vars
    /\ [][vaeLast'.op = "forward" => (rng' # rng /\ enc'.kl.k = 1)]_vars

\* get_latent(x), then forward, then get_latent(x) again.
C4_Witness ==
    \E x \in VAEInputs :
        /\ latentPhase = [x |-> x, phase |-> "again"]
        /\ vaeLast.op = "get_latent" /\ vaeLast.x = x
        /\ latentRets[x] = {vaeLast.ret}
        /\ enc.kl # KLInit

(***************************************************************************)
(* Claims about UniversalGNN                                               *)
(***************************************************************************)
\* C5: common_step runs the model under the class name of the third element
\* of a 3-element batch and under the default dataset name, which is
\* defined, for a 2-element batch; for any other length it raises
\* RuntimeError with the model not run and nothing logged.
C5_CommonStepRouting ==
    ugCall.op = "common_step" =>
        LET n == Len(ugCall.batch)
        IN  /\ (n = 3 => (/\ ugTrace # <<>>
                          /\ ugTrace[1] = <<"forward", ugCall.batch[3]>>))
            /\ (n = 2 => (/\ ugnn.has_default
                          /\ ugTrace # <<>>
                          /\ ugTrace[1] = <<"forward", ugnn.default_dataset_name>>))
            /\ (n \notin {2, 3} => (/\ ugExc = "RuntimeError"
                                    /\ ugTrace = <<>>
                                    /\ ugLogs = <<>>))

\* C6: forward(x, dataset_name) for a dataset with a row-level graph builder
\* and a regressor completes, having run that dataset's graph builder, the
\* GNN and that dataset's regressor in this order and nothing else, and
\* returns the regressor's output on the GNN's output on the graph.
C6_ForwardCompletes ==
    (/\ ugCall.op = "forward"
     /\ ugCall.dataset_name \in DOMAIN ugnn.graphbuilders
     /\ ugCall.dataset_name \in ugnn.regressors
     /\ ~ugnn.graphbuilders[ugCall.dataset_name].edge_level_batch) =>
        /\ ugExc = "none"
        /\ ugTrace = <<<<"graphbuilder", ugCall.dataset_name>>, <<"gnn">>,
                       <<"regressor", ugCall.dataset_name>>>>
        /\ ugOut = <<"regressor", ugCall.dataset_name,
                     <<"gnn", <<"graph", ugCall.dataset_name, ugCall.x>>>>>>

(***************************************************************************)
(* Claims about HyperParameter                                             *)
(***************************************************************************)
RECURSIVE SumMade(_)
SumMade(ps) ==
    IF ps = {} THEN 0
    ELSE LET p == CHOOSE q \in ps : TRUE IN hp[p].made + SumMade(ps \ {p})

\* C8: no construction fails, whatever the interleaving; once a construction
\* has returned the directory exists; and the directory is created only
\* when absent, hence at most once.
C8_ConstructionNeverFails ==
    /\ \A p \in Procs : hp[p].exc = "none" /\ hp[p].pc # "failed"
    /\ \A p \in Procs : hp[p].built > 0 => fs = "dir"
    /\ SumMade(Procs) <= 1

====
